---------------------------- MODULE Spec2Model ----------------------------
(***************************************************************************)
(* Balance-ledger engine of the finances application.                      *)
(*                                                                         *)
(* The database holds accounts (with a cached balance), categories and     *)
(* transaction rows.  A request of the transaction API is a little program *)
(* of database steps (view, pre_save signal, row write, post_save signal   *)
(* with its row locks, pre_delete signal, commit).  The same steps are     *)
(* used twice: run to the end one request after the other (Spec), and      *)
(* interleaved between concurrent requests, with or without a request that *)
(* dies half way (SpecConc, SpecXfer, SpecFail).                           *)
(*                                                                         *)
(* The project enables no request-wide database transaction: a statement   *)
(* outside an explicit atomic() block commits on its own, a block commits  *)
(* when it is left, and a row lock taken by select_for_update() is held    *)
(* until the block that took it ends.                                      *)
(*                                                                         *)
(* Amounts and balances are decimals with two places; they are modelled as *)
(* integers (hundredths).  A description is modelled by its length, which  *)
(* is all the ledger code looks at (max_length).                           *)
(***************************************************************************)
EXTENDS Integers, Sequences, FiniteSets, TLC

\* ------------------------------------------------------------------ bounds
MaxTxns == 2            \* transaction rows ever inserted (txn_id values)
NProcs == 2             \* requests in flight at the same time
MaxCrashes == 1         \* requests that die half way
MaxCats == 6            \* category_id values ever handed out by the API
MaxAccts == 4           \* account_id values ever handed out by the API

\* ------------------------------------------------------ program constants
MaxDescLen == 255       \* Transaction.description max_length
TransferPrefixLen == 16 \* len("Transfer from ") + len(": ")

Users == {1, 2}
Procs == 1..NProcs
Amounts == {1, 2}
Descs == {0, 250}
ReqCategories == {1, 2, 3}
PatchFields == {"account", "category", "amount", "description"}
CatNames == {"Transfer In", "Food"}
CatTypes == {"income", "expense"}

VARIABLES accounts, categories, txns, nextTxn, procs, last, crashes

vars == <<accounts, categories, txns, nextTxn, procs, last, crashes>>

\* The database as one value, for the operators that model the handlers.
DB == [accounts |-> accounts, categories |-> categories,
       txns |-> txns, nextTxn |-> nextTxn]

\* ------------------------------------------------------------------ rows
NoRow == [pk |-> 0, user |-> 0, account |-> 0, category |-> 0,
          amount |-> 0, description |-> 0, transfer_uuid |-> 0]

NoAdj == [kind |-> "none"]

NoReq == [op |-> "none", user |-> 0, id |-> 0, account |-> 0, category |-> 0,
          amount |-> 0, description |-> 0, to_account |-> 0, fields |-> {}]

EmptyPending == [a \in {} |-> 0]

IdleProc == [todo |-> <<>>, req |-> NoReq, inst |-> NoRow, inc |-> NoRow,
             coll |-> <<>>, adj |-> NoAdj, pending |-> EmptyPending,
             delrows |-> {}, delaccts |-> {}, status |-> "idle",
             error |-> "",
             pre |-> [accounts |-> <<>>, txns |-> <<>>]]

\* sign that is -1 for an expense category and 0 for any other type that is
\* not income.
sign_Known(db, tx) ==
    IF db.categories[tx.category].type = "income" THEN 1
    ELSE IF db.categories[tx.category].type = "expense" THEN -1 ELSE 0

\* sign that is +1 whatever the category.
sign_Plus(db, tx) == 1

\* Effect Calculator: +1 for income, -1 for anything else.
sign(db, tx) ==
    IF db.categories[tx.category].type = "income" THEN 1 ELSE -1

effect(db, tx) == sign(db, tx) * tx.amount

\* Transaction.objects.filter(transfer_uuid=uuid, user=user), as a set of pks.
TransferTxns(db, uuid, user) ==
    {k \in DOMAIN db.txns : db.txns[k].transfer_uuid = uuid /\ db.txns[k].user = user}

OfType(db, ks, type) ==
    {k \in ks : db.categories[db.txns[k].category].type = type}

\* A set of pks as a sequence, ascending pk (Collector.delete sorts by pk).
RECURSIVE AscSeq(_)
AscSeq(S) ==
    IF S = {} THEN <<>>
    ELSE LET m == CHOOSE x \in S : \A y \in S : x <= y
         IN <<m>> \o AscSeq(S \ {m})

\* Meta.ordering = ['-txn_date', '-created_at']: the row inserted last first.
RECURSIVE MetaOrder(_)
MetaOrder(S) ==
    IF S = {} THEN <<>>
    ELSE LET m == CHOOSE x \in S : \A y \in S : x >= y
         IN <<m>> \o MetaOrder(S \ {m})


\* ------------------------------------------------- steps of a request
\* One step of a request's program: what is left to do is pr.todo.
Op(name, a, d, row) == [op |-> name, a |-> a, d |-> d, row |-> row]

\* An exception leaves the handler: nothing more is done, and what the open
\* atomic block wrote (pending balances, pending row deletes) is rolled back.
Raise(db, pr, status, error) ==
    [db |-> db,
     pr |-> [pr EXCEPT !.todo = <<>>, !.status = status, !.error = error,
                       !.pending = EmptyPending, !.delrows = {},
                       !.delaccts = {}]]

Goto(db, pr, todo) == [db |-> db, pr |-> [pr EXCEPT !.todo = todo]]

\* IsValid without the two ownership checks of validate(attrs).
IsValid_NoOwner(db, req) ==
    IF "category" \in req.fields /\ req.category \notin DOMAIN db.categories
        THEN "does_not_exist"
    ELSE IF "account" \in req.fields /\ req.account \notin DOMAIN db.accounts
        THEN "does_not_exist"
    ELSE IF "description" \in req.fields /\ req.description > MaxDescLen
        THEN "max_length"
    ELSE ""

\* serializer.is_valid(): the field validators, then validate(attrs).
\* "" when the data is valid, else the error.
IsValid(db, req) ==
    IF "category" \in req.fields /\ req.category \notin DOMAIN db.categories
        THEN "does_not_exist"
    ELSE IF "account" \in req.fields /\ req.account \notin DOMAIN db.accounts
        THEN "does_not_exist"
    ELSE IF "description" \in req.fields /\ req.description > MaxDescLen
        THEN "max_length"
    ELSE IF "category" \in req.fields
            /\ db.categories[req.category].user # req.user
        THEN "category_owner"
    ELSE IF "account" \in req.fields
            /\ db.accounts[req.account].user # req.user
        THEN "account_owner"
    ELSE ""

\* ModelSerializer.update(): the validated fields are set on the instance.
Patched(row, req) ==
    [row EXCEPT
       !.account = IF "account" \in req.fields THEN req.account ELSE @,
       !.category = IF "category" \in req.fields THEN req.category ELSE @,
       !.amount = IF "amount" \in req.fields THEN req.amount ELSE @,
       !.description = IF "description" \in req.fields THEN req.description ELSE @]

NewRow(req, account, category, description) ==
    [pk |-> 0, user |-> req.user, account |-> account, category |-> category,
     amount |-> req.amount, description |-> description, transfer_uuid |-> 0]

\* PostSaveOps that forgets the account a row was moved away from.
PostSaveOps_NoOld(adj) ==
    IF adj.kind = "none" THEN <<>>
    ELSE IF adj.kind = "transfer"
        THEN << Op("lock_add", adj.out_account, adj.out_delta, NoRow),
                Op("lock_add", adj.in_account, adj.in_delta, NoRow),
                Op("commit", 0, 0, NoRow) >>
    ELSE << Op("lock_add", adj.new_account, adj.delta_new, NoRow),
            Op("commit", 0, 0, NoRow) >>

\* PostSaveOps whose atomic block is not left after the balance write of a
\* plain row, so that the row lock is kept.
PostSaveOps_KeepLock(adj) ==
    IF adj.kind = "none" THEN <<>>
    ELSE IF adj.kind = "transfer"
        THEN << Op("lock_add", adj.out_account, adj.out_delta, NoRow),
                Op("lock_add", adj.in_account, adj.in_delta, NoRow),
                Op("commit", 0, 0, NoRow) >>
    ELSE (IF adj.old_account # 0
             THEN << Op("lock_add", adj.old_account, adj.delta_old, NoRow) >>
             ELSE <<>>)
         \o << Op("lock_add", adj.new_account, adj.delta_new, NoRow) >>

\* post_save: the balance writes the adjustment asks for, inside one atomic
\* block (lock the account row, add the delta, save; commit at the end).
PostSaveOps(adj) ==
    IF adj.kind = "none" THEN <<>>
    ELSE IF adj.kind = "transfer"
        THEN << Op("lock_add", adj.out_account, adj.out_delta, NoRow),
                Op("lock_add", adj.in_account, adj.in_delta, NoRow),
                Op("commit", 0, 0, NoRow) >>
    ELSE (IF adj.old_account # 0
             THEN << Op("lock_add", adj.old_account, adj.delta_old, NoRow) >>
             ELSE <<>>)
         \o << Op("lock_add", adj.new_account, adj.delta_new, NoRow),
               Op("commit", 0, 0, NoRow) >>

\* TransactionViewSet.create with no transfer key: validate, then one row.
ViewCreate(db, pr) ==
    LET req == pr.req
        err == IsValid(db, req)
    IN  IF err # "" THEN Raise(db, pr, "400", err)
        ELSE Goto(db, pr,
              << Op("create", 0, 0,
                    NewRow(req, req.account, req.category, req.description)),
                 Op("respond", 201, 0, NoRow) >>)

TransferInCats(db, user) ==
    {c \in DOMAIN db.categories :
        /\ db.categories[c].user = user
        /\ db.categories[c].name = "Transfer In"
        /\ db.categories[c].type = "income"}

\* The category_id an INSERT gets: above every stored id.
FreshCategory(db) ==
    1 + (IF DOMAIN db.categories = {} THEN 0
         ELSE CHOOSE x \in DOMAIN db.categories :
                \A y \in DOMAIN db.categories : y <= x)

\* The stored categories with the given (user, name, type).
SameKey(db, user, name, type) ==
    {c \in DOMAIN db.categories :
        /\ db.categories[c].user = user
        /\ db.categories[c].name = name
        /\ db.categories[c].type = type}

\* InsertCategory on a table without the unique_together constraint.
InsertCategory_NoUnique(db, user, name, type) ==
    LET c == FreshCategory(db)
    IN [ok |-> TRUE, id |-> c,
        db |-> [db EXCEPT !.categories =
                  [k \in DOMAIN db.categories \cup {c} |->
                     IF k = c THEN [user |-> user, name |-> name,
                                    type |-> type]
                     ELSE db.categories[k]]]]

\* Category.objects.create(): the INSERT, refused by the database
\* (IntegrityError) when unique_together (user, name, type) would be broken.
InsertCategory(db, user, name, type) ==
    IF SameKey(db, user, name, type) # {}
        THEN [ok |-> FALSE, id |-> 0, db |-> db]
    ELSE LET c == FreshCategory(db)
         IN [ok |-> TRUE, id |-> c,
             db |-> [db EXCEPT !.categories =
                       [k \in DOMAIN db.categories \cup {c} |->
                          IF k = c THEN [user |-> user, name |-> name,
                                         type |-> type]
                          ELSE db.categories[k]]]]

\* ViewTransfer that takes an outgoing category of any type.
ViewTransfer_AnyCategory(db, pr) ==
    LET req == pr.req
        err == IsValid(db, req)
        have == TransferInCats(db, req.user)
        income_cat == IF have = {} THEN 0 ELSE CHOOSE c \in have : TRUE
    IN  IF err # "" THEN Raise(db, pr, "400", err)
        ELSE IF req.to_account \notin DOMAIN db.accounts
            THEN Raise(db, pr, "500", "Account.DoesNotExist")
        ELSE IF db.accounts[req.to_account].user # req.user
            THEN Raise(db, pr, "400", "to_account_owner")
        ELSE IF Cardinality(have) > 1
            THEN Raise(db, pr, "500", "MultipleObjectsReturned")
        ELSE Goto(db, pr,
              (IF have = {} THEN << Op("get_or_create", 0, 0, NoRow) >>
               ELSE <<>>)
              \o
              << Op("create", 1, 0,
                    NewRow(req, req.account, req.category, req.description)),
                 Op("create", 2, 0,
                    NewRow(req, req.to_account, income_cat,
                           TransferPrefixLen + db.accounts[req.account].name
                             + req.description)),
                 Op("respond", 201, 0, NoRow) >>)

\* TransactionSerializer.create with a transfer key, up to the get() of
\* get_or_create: a 'Transfer In' category that is found is used; when none
\* is found the creation is the next step, and the incoming leg waits for
\* its category (0).
ViewTransfer(db, pr) ==
    LET req == pr.req
        err == IsValid(db, req)
        have == TransferInCats(db, req.user)
        income_cat == IF have = {} THEN 0 ELSE CHOOSE c \in have : TRUE
    IN  IF err # "" THEN Raise(db, pr, "400", err)
        ELSE IF req.to_account \notin DOMAIN db.accounts
            THEN Raise(db, pr, "500", "Account.DoesNotExist")
        ELSE IF db.accounts[req.to_account].user # req.user
            THEN Raise(db, pr, "400", "to_account_owner")
        ELSE IF db.categories[req.category].type # "expense"
            THEN Raise(db, pr, "400", "category_not_expense")
        ELSE IF Cardinality(have) > 1
            THEN Raise(db, pr, "500", "MultipleObjectsReturned")
        ELSE Goto(db, pr,
              (IF have = {} THEN << Op("get_or_create", 0, 0, NoRow) >>
               ELSE <<>>)
              \o
              << Op("create", 1, 0,
                    NewRow(req, req.account, req.category, req.description)),
                 Op("create", 2, 0,
                    NewRow(req, req.to_account, income_cat,
                           TransferPrefixLen + db.accounts[req.account].name
                             + req.description)),
                 Op("respond", 201, 0, NoRow) >>)

\* GetOrCreate that inserts without asking the database for uniqueness.
GetOrCreate_Blind(db, pr) ==
    LET user == pr.req.user
        income_cat == FreshCategory(db)
        rest == Tail(pr.todo)
    IN  Goto([db EXCEPT !.categories =
                [k \in DOMAIN db.categories \cup {income_cat} |->
                   IF k = income_cat
                      THEN [user |-> user, name |-> "Transfer In",
                            type |-> "income"]
                      ELSE db.categories[k]]],
             pr,
             [i \in 1..Len(rest) |->
                IF rest[i].op = "create" /\ rest[i].a = 2
                   THEN [rest[i] EXCEPT !.row.category = income_cat]
                   ELSE rest[i]])

\* get_or_create after its get() found nothing: the INSERT of the 'Transfer
\* In' category; when the database refuses it because another request has
\* inserted the category meanwhile, that category is fetched and used.
GetOrCreate(db, pr) ==
    LET user == pr.req.user
        ins == InsertCategory(db, user, "Transfer In", "income")
        income_cat == IF ins.ok THEN ins.id
                      ELSE CHOOSE c \in TransferInCats(db, user) : TRUE
        rest == Tail(pr.todo)
    IN  Goto(ins.db, pr,
             [i \in 1..Len(rest) |->
                IF rest[i].op = "create" /\ rest[i].a = 2
                   THEN [rest[i] EXCEPT !.row.category = income_cat]
                   ELSE rest[i]])

\* Transaction.objects.create(): pre_save of a row without pk, the INSERT and
\* the expansion of post_save.  op.a tells the leg: 0 no transfer, 1 outgoing
\* (a fresh transfer_uuid, modelled by the row's own pk), 2 incoming (the
\* transfer_uuid of the leg saved just before).
Create(db, pr) ==
    LET op == Head(pr.todo)
        row == [op.row EXCEPT
                  !.pk = db.nextTxn,
                  !.transfer_uuid = IF op.a = 1 THEN db.nextTxn
                                    ELSE IF op.a = 2 THEN pr.inst.transfer_uuid
                                    ELSE 0]
        adj == [kind |-> "normal", old_account |-> 0,
                new_account |-> row.account, delta_old |-> 0,
                delta_new |-> sign(db, row) * row.amount]
    IN  IF row.description > MaxDescLen
            THEN Raise(db, pr, "500", "DataError")
        ELSE IF row.account \notin DOMAIN db.accounts
            THEN Raise(db, pr, "500", "IntegrityError")
        ELSE [db |-> [db EXCEPT
                        !.txns = [k \in DOMAIN db.txns \cup {row.pk} |->
                                    IF k = row.pk THEN row ELSE db.txns[k]],
                        !.nextTxn = db.nextTxn + 1],
              pr |-> [pr EXCEPT !.inst = row, !.adj = adj,
                                !.todo = PostSaveOps(adj) \o Tail(pr.todo)]]

\* PreSave whose delta for the row's account is the new effect alone.
PreSave_NoNet(db, pr) ==
    LET instance == pr.inst
        rest == Tail(pr.todo)
    IN  IF instance.pk \notin DOMAIN db.txns
            THEN [db |-> db, pr |-> [pr EXCEPT !.adj = NoAdj, !.todo = rest]]
        ELSE
        LET old == db.txns[instance.pk]
            transfer_txns == TransferTxns(db, old.transfer_uuid, instance.user)
            exp == OfType(db, transfer_txns, "expense")
            inc == OfType(db, transfer_txns, "income")
        IN  IF old.transfer_uuid # 0
            THEN IF Cardinality(transfer_txns) # 2
                    THEN [db |-> db,
                          pr |-> [pr EXCEPT !.adj = NoAdj, !.todo = rest]]
                 ELSE IF Cardinality(exp) # 1
                    THEN Raise(db, pr, "500", "pre_save get(expense)")
                 ELSE IF Cardinality(inc) # 1
                    THEN Raise(db, pr, "500", "pre_save get(income)")
                 ELSE
                 LET outgoing == db.txns[CHOOSE k \in exp : TRUE]
                     incoming == db.txns[CHOOSE k \in inc : TRUE]
                     outgoing_delta ==
                        IF instance.pk = outgoing.pk
                           THEN effect(db, instance) - effect(db, outgoing)
                           ELSE 0
                     incoming_delta ==
                        IF instance.pk = incoming.pk
                           THEN effect(db, instance) - effect(db, incoming)
                           ELSE 0
                 IN [db |-> db,
                     pr |-> [pr EXCEPT
                        !.adj = [kind |-> "transfer",
                                 out_account |-> outgoing.account,
                                 out_delta |-> outgoing_delta,
                                 in_account |-> incoming.account,
                                 in_delta |-> incoming_delta],
                        !.todo = rest]]
            ELSE
            LET old_effect == effect(db, old)
                new_effect == effect(db, instance)
                moved == old.account # instance.account
                delta_old == IF moved THEN 0 - old_effect ELSE 0
                delta_new == new_effect
            IN [db |-> db,
                pr |-> [pr EXCEPT
                   !.adj = [kind |-> "normal",
                            old_account |-> IF delta_old # 0 THEN old.account
                                            ELSE 0,
                            new_account |-> instance.account,
                            delta_old |-> delta_old,
                            delta_new |-> delta_new],
                   !.todo = rest]]

\* PreSave that nets the two effects on the new account when the row moves.
PreSave_Netted(db, pr) ==
    LET instance == pr.inst
        rest == Tail(pr.todo)
    IN  IF instance.pk \notin DOMAIN db.txns
            THEN [db |-> db, pr |-> [pr EXCEPT !.adj = NoAdj, !.todo = rest]]
        ELSE
        LET old == db.txns[instance.pk]
            transfer_txns == TransferTxns(db, old.transfer_uuid, instance.user)
            exp == OfType(db, transfer_txns, "expense")
            inc == OfType(db, transfer_txns, "income")
        IN  IF old.transfer_uuid # 0
            THEN IF Cardinality(transfer_txns) # 2
                    THEN [db |-> db,
                          pr |-> [pr EXCEPT !.adj = NoAdj, !.todo = rest]]
                 ELSE IF Cardinality(exp) # 1
                    THEN Raise(db, pr, "500", "pre_save get(expense)")
                 ELSE IF Cardinality(inc) # 1
                    THEN Raise(db, pr, "500", "pre_save get(income)")
                 ELSE
                 LET outgoing == db.txns[CHOOSE k \in exp : TRUE]
                     incoming == db.txns[CHOOSE k \in inc : TRUE]
                     outgoing_delta ==
                        IF instance.pk = outgoing.pk
                           THEN effect(db, instance) - effect(db, outgoing)
                           ELSE 0
                     incoming_delta ==
                        IF instance.pk = incoming.pk
                           THEN effect(db, instance) - effect(db, incoming)
                           ELSE 0
                 IN [db |-> db,
                     pr |-> [pr EXCEPT
                        !.adj = [kind |-> "transfer",
                                 out_account |-> outgoing.account,
                                 out_delta |-> outgoing_delta,
                                 in_account |-> incoming.account,
                                 in_delta |-> incoming_delta],
                        !.todo = rest]]
            ELSE
            LET old_effect == effect(db, old)
                new_effect == effect(db, instance)
                moved == old.account # instance.account
                delta_old == 0
                delta_new == new_effect - old_effect
            IN [db |-> db,
                pr |-> [pr EXCEPT
                   !.adj = [kind |-> "normal",
                            old_account |-> IF delta_old # 0 THEN old.account
                                            ELSE 0,
                            new_account |-> instance.account,
                            delta_old |-> delta_old,
                            delta_new |-> delta_new],
                   !.todo = rest]]

\* pre_save of a row that has a pk (adjust_balance_on_update).
PreSave(db, pr) ==
    LET instance == pr.inst
        rest == Tail(pr.todo)
    IN  IF instance.pk \notin DOMAIN db.txns
            THEN [db |-> db, pr |-> [pr EXCEPT !.adj = NoAdj, !.todo = rest]]
        ELSE
        LET old == db.txns[instance.pk]
            transfer_txns == TransferTxns(db, old.transfer_uuid, instance.user)
            exp == OfType(db, transfer_txns, "expense")
            inc == OfType(db, transfer_txns, "income")
        IN  IF old.transfer_uuid # 0
            THEN IF Cardinality(transfer_txns) # 2
                    THEN [db |-> db,
                          pr |-> [pr EXCEPT !.adj = NoAdj, !.todo = rest]]
                 ELSE IF Cardinality(exp) # 1
                    THEN Raise(db, pr, "500", "pre_save get(expense)")
                 ELSE IF Cardinality(inc) # 1
                    THEN Raise(db, pr, "500", "pre_save get(income)")
                 ELSE
                 LET outgoing == db.txns[CHOOSE k \in exp : TRUE]
                     incoming == db.txns[CHOOSE k \in inc : TRUE]
                     outgoing_delta ==
                        IF instance.pk = outgoing.pk
                           THEN effect(db, instance) - effect(db, outgoing)
                           ELSE 0
                     incoming_delta ==
                        IF instance.pk = incoming.pk
                           THEN effect(db, instance) - effect(db, incoming)
                           ELSE 0
                 IN [db |-> db,
                     pr |-> [pr EXCEPT
                        !.adj = [kind |-> "transfer",
                                 out_account |-> outgoing.account,
                                 out_delta |-> outgoing_delta,
                                 in_account |-> incoming.account,
                                 in_delta |-> incoming_delta],
                        !.todo = rest]]
            ELSE
            LET old_effect == effect(db, old)
                new_effect == effect(db, instance)
                moved == old.account # instance.account
                delta_old == IF moved THEN 0 - old_effect ELSE 0
                delta_new == IF moved THEN new_effect
                             ELSE new_effect - old_effect
            IN [db |-> db,
                pr |-> [pr EXCEPT
                   !.adj = [kind |-> "normal",
                            old_account |-> IF delta_old # 0 THEN old.account
                                            ELSE 0,
                            new_account |-> instance.account,
                            delta_old |-> delta_old,
                            delta_new |-> delta_new],
                   !.todo = rest]]

\* Model.save() of a row that has a pk: UPDATE, or INSERT when no row has the
\* pk any more; then the expansion of post_save.
SaveRow(db, pr) ==
    LET row == pr.inst
    IN [db |-> [db EXCEPT
                  !.txns = [k \in DOMAIN db.txns \cup {row.pk} |->
                              IF k = row.pk THEN row ELSE db.txns[k]]],
        pr |-> [pr EXCEPT !.todo = PostSaveOps(pr.adj) \o Tail(pr.todo)]]

\* The balance a request sees for an account row it may have written.
Balance(db, pr, a) ==
    IF a \in DOMAIN pr.pending THEN pr.pending[a] ELSE db.accounts[a].balance

\* select_for_update().get(pk=a); balance += d; save(update_fields).
LockAdd(db, pr) ==
    LET op == Head(pr.todo)
    IN  IF op.a \notin DOMAIN db.accounts
            THEN Raise(db, pr, "500", "Account.DoesNotExist")
        ELSE [db |-> db,
              pr |-> [pr EXCEPT
                 !.pending = [k \in DOMAIN pr.pending \cup {op.a} |->
                                IF k = op.a THEN Balance(db, pr, op.a) + op.d
                                ELSE pr.pending[k]],
                 !.todo = Tail(pr.todo)]]

\* The outermost atomic block is left: its writes become visible and its
\* row locks are released.
Commit(db, pr) ==
    [db |-> [db EXCEPT
               !.accounts = [k \in DOMAIN db.accounts \ pr.delaccts |->
                               IF k \in DOMAIN pr.pending
                                  THEN [db.accounts[k] EXCEPT
                                          !.balance = pr.pending[k]]
                                  ELSE db.accounts[k]],
               !.txns = [k \in DOMAIN db.txns \ pr.delrows |-> db.txns[k]]],
     pr |-> [pr EXCEPT !.pending = EmptyPending, !.delrows = {},
                       !.delaccts = {}, !.todo = Tail(pr.todo)]]

Respond(db, pr) ==
    [db |-> db,
     pr |-> [pr EXCEPT !.todo = <<>>,
                       !.status = ToString(Head(pr.todo).a)]]


\* get_object(): the row with that pk among the acting user's rows.
Visible(db, req) ==
    req.id \in DOMAIN db.txns /\ db.txns[req.id].user = req.user

SaveOps == << Op("pre_save", 0, 0, NoRow), Op("save_row", 0, 0, NoRow) >>

\* ViewUpdate that lets the patch of a transfer leg carry an account.
ViewUpdate_AccountAllowed(db, pr) ==
    LET req == pr.req
        err == IsValid(db, req)
    IN  IF ~Visible(db, req) THEN Raise(db, pr, "404", "not_found")
        ELSE
        LET instance == db.txns[req.id]
            transfer_uuid == instance.transfer_uuid
            transactions == TransferTxns(db, transfer_uuid, req.user)
            exp == OfType(db, transactions, "expense")
            inc == OfType(db, transactions, "income")
        IN  IF transfer_uuid = 0
                THEN IF err # "" THEN Raise(db, pr, "400", err)
                     ELSE [db |-> db,
                           pr |-> [pr EXCEPT
                              !.inst = Patched(instance, req),
                              !.todo = SaveOps
                                 \o << Op("respond", 200, 0, NoRow) >>]]
            ELSE IF Cardinality(transactions) # 2
                THEN Raise(db, pr, "400", "invalid_transfer_state")
            ELSE IF Cardinality(exp) # 1
                THEN Raise(db, pr, "500", "view get(expense)")
            ELSE IF Cardinality(inc) # 1
                THEN Raise(db, pr, "500", "view get(income)")
            ELSE IF err # "" THEN Raise(db, pr, "400", err)
            ELSE [db |-> db,
                  pr |-> [pr EXCEPT
                     !.inst = Patched(db.txns[CHOOSE k \in exp : TRUE], req),
                     !.inc = db.txns[CHOOSE k \in inc : TRUE],
                     !.todo = SaveOps \o << Op("mirror", 0, 0, NoRow) >>
                        \o SaveOps \o << Op("respond", 200, 0, NoRow) >>]]

\* TransactionViewSet.update, up to the first save.
ViewUpdate(db, pr) ==
    LET req == pr.req
        err == IsValid(db, req)
    IN  IF ~Visible(db, req) THEN Raise(db, pr, "404", "not_found")
        ELSE
        LET instance == db.txns[req.id]
            transfer_uuid == instance.transfer_uuid
            transactions == TransferTxns(db, transfer_uuid, req.user)
            exp == OfType(db, transactions, "expense")
            inc == OfType(db, transactions, "income")
        IN  IF transfer_uuid # 0 /\ "account" \in req.fields
                THEN Raise(db, pr, "400", "transfer_account")
            ELSE IF transfer_uuid = 0
                THEN IF err # "" THEN Raise(db, pr, "400", err)
                     ELSE [db |-> db,
                           pr |-> [pr EXCEPT
                              !.inst = Patched(instance, req),
                              !.todo = SaveOps
                                 \o << Op("respond", 200, 0, NoRow) >>]]
            ELSE IF Cardinality(transactions) # 2
                THEN Raise(db, pr, "400", "invalid_transfer_state")
            ELSE IF Cardinality(exp) # 1
                THEN Raise(db, pr, "500", "view get(expense)")
            ELSE IF Cardinality(inc) # 1
                THEN Raise(db, pr, "500", "view get(income)")
            ELSE IF err # "" THEN Raise(db, pr, "400", err)
            ELSE [db |-> db,
                  pr |-> [pr EXCEPT
                     !.inst = Patched(db.txns[CHOOSE k \in exp : TRUE], req),
                     !.inc = db.txns[CHOOSE k \in inc : TRUE],
                     !.todo = SaveOps \o << Op("mirror", 0, 0, NoRow) >>
                        \o SaveOps \o << Op("respond", 200, 0, NoRow) >>]]

\* Mirror that copies the description but not the amount.
Mirror_KeepAmount(db, pr) ==
    LET outgoing == pr.inst
        description == TransferPrefixLen + db.accounts[outgoing.account].name
                         + outgoing.description
    IN  IF outgoing.account \notin DOMAIN db.accounts
            THEN Raise(db, pr, "500", "Account.DoesNotExist")
        ELSE IF description > MaxDescLen
            THEN Raise(db, pr, "400", "max_length")
        ELSE [db |-> db,
              pr |-> [pr EXCEPT
                 !.inst = [pr.inc EXCEPT !.description = description],
                 !.todo = Tail(pr.todo)]]

\* TransactionViewSet.update, between the two saves: the incoming leg takes
\* the amount and the re-derived description of the outgoing instance, and
\* this data is validated.
Mirror(db, pr) ==
    LET outgoing == pr.inst
        description == TransferPrefixLen + db.accounts[outgoing.account].name
                         + outgoing.description
    IN  IF outgoing.account \notin DOMAIN db.accounts
            THEN Raise(db, pr, "500", "Account.DoesNotExist")
        ELSE IF description > MaxDescLen
            THEN Raise(db, pr, "400", "max_length")
        ELSE [db |-> db,
              pr |-> [pr EXCEPT
                 !.inst = [pr.inc EXCEPT !.amount = outgoing.amount,
                                         !.description = description],
                 !.todo = Tail(pr.todo)]]

\* TransactionViewSet.destroy: the rows to delete are collected (both legs of
\* a transfer), in ascending pk; pre_delete is sent for each, then the rows
\* are deleted, all in the atomic block of the deletion.
ViewDestroy(db, pr) ==
    LET req == pr.req
    IN  IF ~Visible(db, req) THEN Raise(db, pr, "404", "not_found")
        ELSE
        LET instance == db.txns[req.id]
            pks == IF instance.transfer_uuid # 0
                      THEN AscSeq(TransferTxns(db, instance.transfer_uuid,
                                               req.user))
                      ELSE << req.id >>
        IN [db |-> db,
            pr |-> [pr EXCEPT
               !.coll = [i \in 1..Len(pks) |-> db.txns[pks[i]]],
               !.todo = [i \in 1..Len(pks) |-> Op("pre_delete", i, 0, NoRow)]
                  \o << Op("delete_rows", 0, 0, NoRow),
                        Op("commit", 0, 0, NoRow),
                        Op("respond", 204, 0, NoRow) >>]]

\* PreDelete that reverts the transfer for every leg it is sent for.
PreDelete_EveryLeg(db, pr) ==
    LET instance == pr.coll[Head(pr.todo).a]
        rest == Tail(pr.todo)
        transfer_txns == TransferTxns(db, instance.transfer_uuid, instance.user)
        legs == MetaOrder(transfer_txns)
    IN  IF instance.transfer_uuid # 0
        THEN Goto(db, pr,
                [i \in 1..Len(legs) |->
                    Op("lock_add", db.txns[legs[i]].account,
                       0 - effect(db, db.txns[legs[i]]), NoRow)]
                \o rest)
        ELSE Goto(db, pr,
               << Op("lock_add", instance.account,
                     0 - effect(db, instance), NoRow) >> \o rest)

\* PreDelete that does not revert a row that is no transfer leg.
PreDelete_NoRevert(db, pr) ==
    LET instance == pr.coll[Head(pr.todo).a]
        rest == Tail(pr.todo)
        transfer_txns == TransferTxns(db, instance.transfer_uuid, instance.user)
        exp == MetaOrder(OfType(db, transfer_txns, "expense"))
        legs == MetaOrder(transfer_txns)
    IN  IF instance.transfer_uuid # 0
        THEN IF exp = <<>>
                THEN Raise(db, pr, "500", "AttributeError")
             ELSE IF instance.pk # exp[1]
                THEN Goto(db, pr, rest)
             ELSE Goto(db, pr,
                    [i \in 1..Len(legs) |->
                        Op("lock_add", db.txns[legs[i]].account,
                           0 - effect(db, db.txns[legs[i]]), NoRow)]
                    \o rest)
        ELSE Goto(db, pr, rest)

\* pre_delete (revert_balance_on_delete) for the instance pr.coll[op.a].
PreDelete(db, pr) ==
    LET instance == pr.coll[Head(pr.todo).a]
        rest == Tail(pr.todo)
        transfer_txns == TransferTxns(db, instance.transfer_uuid, instance.user)
        exp == MetaOrder(OfType(db, transfer_txns, "expense"))
        legs == MetaOrder(transfer_txns)
    IN  IF instance.transfer_uuid # 0
        THEN IF exp = <<>>
                THEN Raise(db, pr, "500", "AttributeError")
             ELSE IF instance.pk # exp[1]
                THEN Goto(db, pr, rest)
             ELSE Goto(db, pr,
                    [i \in 1..Len(legs) |->
                        Op("lock_add", db.txns[legs[i]].account,
                           0 - effect(db, db.txns[legs[i]]), NoRow)]
                    \o rest)
        ELSE Goto(db, pr,
               << Op("lock_add", instance.account,
                     0 - effect(db, instance), NoRow) >> \o rest)

\* The DELETE of the collected rows, inside the deletion's atomic block.
DeleteRows(db, pr) ==
    [db |-> db,
     pr |-> [pr EXCEPT
        !.delrows = {pr.coll[i].pk : i \in 1..Len(pr.coll)},
        !.todo = Tail(pr.todo)]]

\* get_object() of the account API: the account with that pk among the
\* acting user's accounts.
VisibleAccount(db, u, a) ==
    a \in DOMAIN db.accounts /\ db.accounts[a].user = u

\* AccountViewSet.destroy: the account's transactions are collected with it
\* (Transaction.account is on_delete=CASCADE); pre_delete is sent for each of
\* them in ascending pk, then the transactions and the account are deleted,
\* all in the atomic block of the deletion.
ViewDestroyAccount(db, pr) ==
    LET req == pr.req
    IN  IF ~VisibleAccount(db, req.user, req.account)
        THEN Raise(db, pr, "404", "not_found")
        ELSE
        LET pks == AscSeq({k \in DOMAIN db.txns :
                             db.txns[k].account = req.account})
        IN [db |-> db,
            pr |-> [pr EXCEPT
               !.coll = [i \in 1..Len(pks) |-> db.txns[pks[i]]],
               !.todo = [i \in 1..Len(pks) |-> Op("pre_delete", i, 0, NoRow)]
                  \o << Op("delete_rows", 0, 0, NoRow),
                        Op("delete_account", req.account, 0, NoRow),
                        Op("commit", 0, 0, NoRow),
                        Op("respond", 204, 0, NoRow) >>]]

\* The DELETE of the account, after the DELETE of its transactions.
DeleteAccount(db, pr) ==
    [db |-> db,
     pr |-> [pr EXCEPT !.delaccts = {Head(pr.todo).a},
                       !.todo = Tail(pr.todo)]]

View(db, pr) ==
    CASE pr.req.op = "create" -> ViewCreate(db, pr)
      [] pr.req.op = "transfer" -> ViewTransfer(db, pr)
      [] pr.req.op = "update" -> ViewUpdate(db, pr)
      [] pr.req.op = "destroy" -> ViewDestroy(db, pr)
      [] pr.req.op = "destroy_account" -> ViewDestroyAccount(db, pr)

\* The next step of a request.
Step(db, pr) ==
    LET op == Head(pr.todo).op
    IN CASE op = "view" -> View(db, pr)
         [] op = "get_or_create" -> GetOrCreate(db, pr)
         [] op = "create" -> Create(db, pr)
         [] op = "pre_save" -> PreSave(db, pr)
         [] op = "save_row" -> SaveRow(db, pr)
         [] op = "lock_add" -> LockAdd(db, pr)
         [] op = "commit" -> Commit(db, pr)
         [] op = "mirror" -> Mirror(db, pr)
         [] op = "pre_delete" -> PreDelete(db, pr)
         [] op = "delete_rows" -> DeleteRows(db, pr)
         [] op = "delete_account" -> DeleteAccount(db, pr)
         [] op = "respond" -> Respond(db, pr)

\* A request as it arrives.
Start(req) ==
    [IdleProc EXCEPT !.req = req, !.status = "running",
                     !.todo = << Op("view", 0, 0, NoRow) >>]

\* A request served alone, from its arrival to its response.
RECURSIVE Run(_, _)
Run(db, pr) ==
    IF pr.todo = <<>> THEN [db |-> db, pr |-> pr]
    ELSE LET r == Step(db, pr) IN Run(r.db, r.pr)

Handle(db, req) == Run(db, Start(req))


\* ------------------------------------------------------------ the state
\* Two registered users (each got its two default categories when it was
\* created), user 1 with two accounts and user 2 with one, no transaction yet.
InitAccounts ==
    [a \in {1, 2, 3} |->
        [user |-> IF a = 3 THEN 2 ELSE 1, name |-> 4, balance |-> 0]]

InitCategories ==
    [c \in {1, 2, 3, 4} |->
        [user |-> IF c <= 2 THEN 1 ELSE 2,
         name |-> IF c \in {1, 3} THEN "Transfer In" ELSE "Transfer Out",
         type |-> IF c \in {1, 3} THEN "income" ELSE "expense"]]

NoLast == [op |-> "none", id |-> 0, status |-> "", amount |-> 0,
           was |-> 0, leg |-> "none", foreign |-> FALSE]

Init ==
    /\ accounts = InitAccounts
    /\ categories = InitCategories
    /\ txns = [k \in {} |-> NoRow]
    /\ nextTxn = 1
    /\ procs = [p \in Procs |-> IdleProc]
    /\ last = NoLast
    /\ crashes = 0

\* The request names an account, a destination account or a category of
\* another user.
Foreign(db, req) ==
    \/ "account" \in req.fields /\ req.account \in DOMAIN db.accounts
         /\ db.accounts[req.account].user # req.user
    \/ "category" \in req.fields /\ req.category \in DOMAIN db.categories
         /\ db.categories[req.category].user # req.user
    \/ req.op = "transfer" /\ req.to_account \in DOMAIN db.accounts
         /\ db.accounts[req.to_account].user # req.user

\* What is remembered of the request served last: the operation, the response
\* status, whether the request named something foreign and, of an update or
\* a delete that succeeded, the row it addressed, the amount it carried, the
\* amount the row had, and the category type of the row when it was a
\* transfer leg.
Summary(db, req, pr) ==
    LET ok == pr.status \in {"200", "201", "204"}
        addressed == ok /\ req.op \in {"update", "destroy"}
    IN [op |-> req.op,
        id |-> IF addressed THEN req.id ELSE 0,
        status |-> pr.status,
        amount |-> IF addressed /\ "amount" \in req.fields
                      THEN req.amount ELSE 0,
        was |-> IF addressed /\ "amount" \in req.fields
                   THEN db.txns[req.id].amount ELSE 0,
        leg |-> IF addressed /\ db.txns[req.id].transfer_uuid # 0
                   THEN db.categories[db.txns[req.id].category].type
                   ELSE "none",
        foreign |-> Foreign(db, req)]

\* One request served alone.
Serve(req) ==
    \E r \in {Handle(DB, req)} :
        /\ accounts' = r.db.accounts
        /\ categories' = r.db.categories
        /\ txns' = r.db.txns
        /\ nextTxn' = r.db.nextTxn
        /\ last' = Summary(DB, req, r.pr)
        /\ UNCHANGED <<procs, crashes>>

\* POST /transactions/ without a transfer key.
CreateTransaction(u, a, c, m, d) ==
    /\ nextTxn <= MaxTxns
    /\ Serve([NoReq EXCEPT !.op = "create", !.user = u, !.account = a,
                !.category = c, !.amount = m, !.description = d,
                !.fields = PatchFields])

\* POST /transactions/ with a transfer key.
CreateTransfer(u, a, c, m, d, to) ==
    /\ nextTxn + 1 <= MaxTxns
    /\ Serve([NoReq EXCEPT !.op = "transfer", !.user = u, !.account = a,
                !.category = c, !.amount = m, !.description = d,
                !.to_account = to, !.fields = PatchFields])

\* PUT or PATCH /transactions/<id>/ (both are partial updates); fs is the set
\* of fields the request carries.
UpdateTransaction(u, id, fs, a, c, m, d) ==
    Serve([NoReq EXCEPT !.op = "update", !.user = u, !.id = id,
             !.account = a, !.category = c, !.amount = m,
             !.description = d, !.fields = fs])

\* DELETE /transactions/<id>/.
DestroyTransaction(u, id) ==
    Serve([NoReq EXCEPT !.op = "destroy", !.user = u, !.id = id])

\* The patches of an update by user u whose fields are among F, with
\* descriptions in D.
Updates(u, F, D) ==
    \E id \in DOMAIN txns, fs \in SUBSET F :
      \E a \in IF "account" \in fs THEN DOMAIN accounts ELSE {0},
         c \in IF "category" \in fs THEN ReqCategories ELSE {0},
         m \in IF "amount" \in fs THEN Amounts ELSE {0},
         d \in IF "description" \in fs THEN D ELSE {0} :
        UpdateTransaction(u, id, fs, a, c, m, d)

\* Requests served one after the other.  User 1 issues every kind of request,
\* naming any account and a category that is its income category, its expense
\* category or a category of user 2; user 2 tries to change and to delete
\* rows (which are never its own).
Creations ==
    \E a \in DOMAIN accounts, c \in ReqCategories, m \in Amounts :
        CreateTransaction(1, a, c, m, 0)

TransferCreations ==
    \E a \in DOMAIN accounts, c \in ReqCategories, m \in Amounts,
       to \in DOMAIN accounts :
        CreateTransfer(1, a, c, m, 0, to)

OwnUpdates == Updates(1, {"account", "category", "amount"}, {})

ForeignUpdates == Updates(2, {"amount"}, {})

Deletions ==
    \E id \in DOMAIN txns, u \in Users : DestroyTransaction(u, id)

Next ==
    \/ Creations
    \/ TransferCreations
    \/ OwnUpdates
    \/ ForeignUpdates
    \/ Deletions

Spec == Init /\ [][Next]_vars

\* Requests of user 1 served one after the other, with the values at the
\* edge of what the serializer accepts: an amount below zero, a description,
\* a patch that names an account, a patch that names a category.
SignedAmounts == {-1, 1}

EdgeDescs == {5}

EdgeCreations ==
    \E m \in SignedAmounts : CreateTransaction(1, 1, 1, m, 0)

EdgeTransfers == CreateTransfer(1, 1, 2, 1, 0, 2)

EdgeUpdates == Updates(1, {"account", "description"}, EdgeDescs)

CategoryUpdates == Updates(1, {"category"}, {})

NextEdge ==
    \/ EdgeCreations
    \/ EdgeTransfers
    \/ EdgeUpdates
    \/ CategoryUpdates
    \/ Deletions

SpecEdge == Init /\ [][NextEdge]_vars

\* ------------------------------------------------ the category API
\* POST /categories/: CategoryViewSet.perform_create saves the category for
\* the acting user.  The serializer has no uniqueness check of its own (user
\* is read-only), so a duplicate ends in the database's IntegrityError.
CreateCategory(u, n, t) ==
    /\ SameKey(DB, u, n, t) # {} \/ FreshCategory(DB) <= MaxCats
    /\ \E r \in {InsertCategory(DB, u, n, t)} :
          /\ categories' = r.db.categories
          /\ last' = [NoLast EXCEPT !.op = "create_category",
                                    !.status = IF r.ok THEN "201" ELSE "500"]
    /\ UNCHANGED <<accounts, txns, nextTxn, procs, crashes>>

\* DELETE /categories/<c>/: the acting user's own category, unless a
\* transaction references it (on_delete=PROTECT).
DestroyCategory(u, c) ==
    LET visible == c \in DOMAIN categories /\ categories[c].user = u
        protected == \E k \in DOMAIN txns : txns[k].category = c
    IN  /\ categories' = IF visible /\ ~protected
                            THEN [k \in DOMAIN categories \ {c} |->
                                    categories[k]]
                            ELSE categories
        /\ last' = [NoLast EXCEPT
                      !.op = "destroy_category",
                      !.status = IF ~visible THEN "404"
                                 ELSE IF protected THEN "500" ELSE "204"]
        /\ UNCHANGED <<accounts, txns, nextTxn, procs, crashes>>

\* Users manage their categories and user 1 creates transfers from account 1
\* to account 2 with any stored category, and deletes rows.
CategoryCreations ==
    \E u \in Users, n \in CatNames, t \in CatTypes : CreateCategory(u, n, t)

CategoryDeletions ==
    \E c \in DOMAIN categories : DestroyCategory(1, c)

CategoryTransfers ==
    \E c \in DOMAIN categories :
        /\ FreshCategory(DB) <= MaxCats
        /\ CreateTransfer(1, 1, c, 1, 0, 2)

NextCats ==
    \/ CategoryCreations
    \/ CategoryDeletions
    \/ CategoryTransfers
    \/ Deletions

SpecCats == Init /\ [][NextCats]_vars

\* PUT or PATCH /categories/<c>/ by user u with type t: 'type' is a writable
\* field of CategorySerializer.  The UPDATE is refused when the user has
\* another category of that name and type (unique_together).
UpdateCategory(u, c, t) ==
    LET visible == c \in DOMAIN categories /\ categories[c].user = u
        taken == visible
                 /\ SameKey(DB, u, categories[c].name, t) \ {c} # {}
    IN  /\ categories' = IF visible /\ ~taken
                            THEN [categories EXCEPT ![c].type = t]
                            ELSE categories
        /\ last' = [NoLast EXCEPT
                      !.op = "update_category", !.id = c,
                      !.status = IF ~visible THEN "404"
                                 ELSE IF taken THEN "500" ELSE "200"]
        /\ UNCHANGED <<accounts, txns, nextTxn, procs, crashes>>

\* User 1 records rows and transfers with its two categories, changes the
\* type of a category, and deletes rows.
DirectionChanges ==
    \E c \in DOMAIN categories, t \in CatTypes : UpdateCategory(1, c, t)

DirectionRows ==
    \E a \in {1, 2}, c \in {1, 2} : CreateTransaction(1, a, c, 1, 0)

DirectionTransfers == \E c \in {1, 2} : CreateTransfer(1, 1, c, 1, 0, 2)

DirectionDeletions == \E id \in DOMAIN txns : DestroyTransaction(1, id)

NextDir ==
    \/ DirectionChanges
    \/ DirectionRows
    \/ DirectionTransfers
    \/ DirectionDeletions

SpecDir == Init /\ [][NextDir]_vars

\* Rows that are no transfer legs.  User 1 creates rows on its two accounts
\* with its income or its expense category and an amount that may be 0,
\* patches the account, the category or the amount of a row, and deletes
\* rows, one request after the other.
UpdAmounts == {0, 1}

RowCreations ==
    \E a \in {1, 2}, c \in {1, 2}, m \in UpdAmounts :
        CreateTransaction(1, a, c, m, 0)

RowUpdates ==
    \E id \in DOMAIN txns, fs \in SUBSET {"account", "category", "amount"} :
      \E a \in IF "account" \in fs THEN {1, 2} ELSE {0},
         c \in IF "category" \in fs THEN {1, 2} ELSE {0},
         m \in IF "amount" \in fs THEN UpdAmounts ELSE {0} :
        UpdateTransaction(1, id, fs, a, c, m, 0)

RowDeletions == \E id \in DOMAIN txns : DestroyTransaction(1, id)

NextRows ==
    \/ RowCreations
    \/ RowUpdates
    \/ RowDeletions

SpecRows == Init /\ [][NextRows]_vars

\* The effect calculator on its own.  One row of user 1 is stored, with any
\* amount, on either account and with either category of user 1; the two
\* categories have any type (Category.type is a CharField whose choices
\* save() does not enforce), and the balances are those of the ledger.  The
\* effect of the row is computed, and the type of a category is changed
\* through the category API.
EffectAmounts == {-1, 0, 1, 2}
EffectTypes == {"income", "expense", "other"}

EffectRows ==
    {[NoRow EXCEPT !.pk = 1, !.user = 1, !.account = a, !.category = c,
                   !.amount = m] :
        a \in {1, 2}, c \in {1, 2}, m \in EffectAmounts}

EffectCategories ==
    {[c \in DOMAIN InitCategories |->
        IF c \in DOMAIN f
           THEN [InitCategories[c] EXCEPT !.type = f[c]]
           ELSE InitCategories[c]] : f \in [{1, 2} -> EffectTypes]}

InitEffect ==
    /\ categories \in EffectCategories
    /\ \E row \in EffectRows :
          /\ txns = [k \in {1} |-> row]
          /\ accounts =
               [a \in DOMAIN InitAccounts |->
                  [InitAccounts[a] EXCEPT
                     !.balance =
                        IF a # row.account THEN 0
                        ELSE IF categories[row.category].type = "income"
                           THEN row.amount ELSE 0 - row.amount]]
    /\ nextTxn = 2
    /\ procs = [p \in Procs |-> IdleProc]
    /\ last = NoLast
    /\ crashes = 0

\* sign(tx) * tx.amount is computed for the stored row k.
ApplyEffect(k) ==
    /\ last' = [NoLast EXCEPT !.op = "effect", !.id = k,
                              !.amount = effect(DB, txns[k])]
    /\ UNCHANGED <<accounts, categories, txns, nextTxn, procs, crashes>>

EffectComputations == \E k \in DOMAIN txns : ApplyEffect(k)

EffectRetypes == \E c \in {1, 2}, t \in CatTypes : UpdateCategory(1, c, t)

NextEffect ==
    \/ EffectComputations
    \/ EffectRetypes

SpecEffect == InitEffect /\ [][NextEffect]_vars

\* ------------------------------------------------ requests in flight
\* Blocked when account rows are read without select_for_update().
Blocked_Never(p) == FALSE

\* select_for_update(): the account row the request is about to lock is
\* locked by another request's open atomic block.  The UPDATE of a
\* transaction row waits likewise while another request's open atomic block
\* has deleted that row.
Blocked(p) ==
    /\ procs[p].todo # <<>>
    /\ \/ /\ Head(procs[p].todo).op = "lock_add"
          /\ \E q \in Procs \ {p} :
                Head(procs[p].todo).a \in DOMAIN procs[q].pending
       \/ /\ Head(procs[p].todo).op = "save_row"
          /\ \E q \in Procs \ {p} : procs[p].inst.pk \in procs[q].delrows

\* Request p takes its next step, which is a step of the given kind.
StepOf(p, name) ==
    /\ procs[p].todo # <<>>
    /\ Head(procs[p].todo).op = name
    /\ ~Blocked(p)
    /\ \E r \in {Step(DB, procs[p])} :
           /\ accounts' = r.db.accounts
           /\ categories' = r.db.categories
           /\ txns' = r.db.txns
           /\ nextTxn' = r.db.nextTxn
           /\ procs' = [procs EXCEPT ![p] = r.pr]
    /\ UNCHANGED <<last, crashes>>

DoView(p) ==
    /\ procs[p].status = "running"
    /\ StepOf(p, "view")

DoGetOrCreate(p) ==
    /\ procs[p].status = "running"
    /\ StepOf(p, "get_or_create")

DoCreate(p) ==
    /\ procs[p].status = "running"
    /\ StepOf(p, "create")

DoPreSave(p) ==
    /\ procs[p].status = "running"
    /\ StepOf(p, "pre_save")

DoSaveRow(p) ==
    /\ procs[p].status = "running"
    /\ StepOf(p, "save_row")

DoLockAdd(p) ==
    /\ procs[p].status = "running"
    /\ StepOf(p, "lock_add")

DoCommit(p) ==
    /\ procs[p].status = "running"
    /\ StepOf(p, "commit")

DoMirror(p) ==
    /\ procs[p].status = "running"
    /\ StepOf(p, "mirror")

DoPreDelete(p) ==
    /\ procs[p].status = "running"
    /\ StepOf(p, "pre_delete")

DoDeleteRows(p) ==
    /\ procs[p].status = "running"
    /\ StepOf(p, "delete_rows")

DoRespond(p) ==
    /\ procs[p].status = "running"
    /\ StepOf(p, "respond")


\* A request arrives at worker p.
Arrive(p, req) ==
    /\ procs' = [procs EXCEPT ![p] = Start(req)]
    /\ UNCHANGED <<accounts, categories, txns, nextTxn, last, crashes>>

\* The worker or its database connection dies in the middle of a request:
\* the open atomic block, if any, is rolled back; what was committed stays.
Crash(p) ==
    /\ procs[p].todo # <<>>
    /\ crashes < MaxCrashes
    /\ procs' = [procs EXCEPT ![p] = Raise(DB, procs[p], "crash", "crash").pr]
    /\ crashes' = crashes + 1
    /\ UNCHANGED <<accounts, categories, txns, nextTxn, last>>

Running(p) == procs[p].todo # <<>>

\* Concurrent deposits: every worker serves one creation of an income row
\* of user 1.
Deposit(p, a, m) ==
    /\ procs[p].status = "idle"
    /\ Arrive(p, [NoReq EXCEPT !.op = "create", !.user = 1, !.account = a,
                    !.category = 1, !.amount = m, !.fields = PatchFields])

NextConc ==
    \E p \in Procs :
        \/ \E a \in {1, 2}, m \in Amounts : Deposit(p, a, m)
        \/ DoView(p)
        \/ DoCreate(p)
        \/ DoLockAdd(p)
        \/ DoCommit(p)
        \/ DoRespond(p)

SpecConc == Init /\ [][NextConc]_vars

\* Concurrent transfers between the two accounts of user 1, in either
\* direction: every worker serves one.
Transfer(p, a, to, m) ==
    /\ procs[p].status = "idle"
    /\ Arrive(p, [NoReq EXCEPT !.op = "transfer", !.user = 1, !.account = a,
                    !.category = 2, !.amount = m, !.to_account = to,
                    !.fields = PatchFields])

NextXfer ==
    \E p \in Procs :
        \/ \E a \in {1, 2}, to \in {1, 2}, m \in Amounts :
              /\ a # to
              /\ Transfer(p, a, to, m)
        \/ DoView(p)
        \/ DoCreate(p)
        \/ DoLockAdd(p)
        \/ DoCommit(p)
        \/ DoRespond(p)

SpecXfer == Init /\ [][NextXfer]_vars

\* Requests that race for one row.  User 1 has deposited 1 on account 1 (row
\* 1, income category); then every worker serves one request for row 1: a
\* patch of its amount, of its category or of both, or its deletion.
RaceRow == [NoRow EXCEPT !.pk = 1, !.user = 1, !.account = 1,
                         !.category = 1, !.amount = 1]

\* The balance of account 1 after the deposit.
RaceBalance == effect([categories |-> InitCategories], RaceRow)

InitRace ==
    /\ accounts = [InitAccounts EXCEPT ![1].balance = RaceBalance]
    /\ categories = InitCategories
    /\ txns = [k \in {1} |-> RaceRow]
    /\ nextTxn = 2
    /\ procs = [p \in Procs |-> IdleProc]
    /\ last = NoLast
    /\ crashes = 0

RaceUpdate(p) ==
    /\ procs[p].status = "idle"
    /\ \E fs \in SUBSET {"amount", "category"} :
          Arrive(p, [NoReq EXCEPT !.op = "update", !.user = 1, !.id = 1,
                       !.amount = IF "amount" \in fs THEN 2 ELSE 0,
                       !.category = IF "category" \in fs THEN 2 ELSE 0,
                       !.fields = fs])

RaceDelete(p) ==
    /\ procs[p].status = "idle"
    /\ Arrive(p, [NoReq EXCEPT !.op = "destroy", !.user = 1, !.id = 1])

NextRace ==
    \E p \in Procs :
        \/ RaceUpdate(p)
        \/ RaceDelete(p)
        \/ DoView(p)
        \/ DoPreSave(p)
        \/ DoSaveRow(p)
        \/ DoLockAdd(p)
        \/ DoCommit(p)
        \/ DoPreDelete(p)
        \/ DoDeleteRows(p)
        \/ DoRespond(p)

SpecRace == InitRace /\ [][NextRace]_vars

\* Rows that change account.  User 1 has deposited 1 on account 1 (row 1)
\* and 1 on account 2 (row 2); then every worker serves one patch that names
\* an account for one of the rows.
MoveRows ==
    [k \in {1, 2} |-> [NoRow EXCEPT !.pk = k, !.user = 1, !.account = k,
                                    !.category = 1, !.amount = 1]]

InitMove ==
    /\ accounts = [a \in DOMAIN InitAccounts |->
                     [InitAccounts[a] EXCEPT
                        !.balance = IF a \in DOMAIN MoveRows
                                       THEN RaceBalance ELSE 0]]
    /\ categories = InitCategories
    /\ txns = MoveRows
    /\ nextTxn = 3
    /\ procs = [p \in Procs |-> IdleProc]
    /\ last = NoLast
    /\ crashes = 0

MoveRow(p) ==
    /\ procs[p].status = "idle"
    /\ \E id \in DOMAIN MoveRows, to \in {1, 2} :
          Arrive(p, [NoReq EXCEPT !.op = "update", !.user = 1, !.id = id,
                       !.account = to, !.fields = {"account"}])

NextMove ==
    \E p \in Procs :
        \/ MoveRow(p)
        \/ DoView(p)
        \/ DoPreSave(p)
        \/ DoSaveRow(p)
        \/ DoLockAdd(p)
        \/ DoCommit(p)
        \/ DoRespond(p)

SpecMove == InitMove /\ [][NextMove]_vars

\* One worker serves requests of user 1 one after the other, and a request
\* may die at any step.  The balances and rows found when the request arrives
\* are remembered with it.
Request(req) ==
    /\ ~Running(1)
    /\ procs' = [procs EXCEPT ![1] =
                   [Start(req) EXCEPT
                      !.pre = [accounts |-> accounts, txns |-> txns]]]
    /\ UNCHANGED <<accounts, categories, txns, nextTxn, last, crashes>>

CreateRequest ==
    \E a \in {1, 2}, c \in {1, 2} :
        /\ nextTxn <= MaxTxns
        /\ Request([NoReq EXCEPT !.op = "create", !.user = 1,
                      !.account = a, !.category = c, !.amount = 1,
                      !.fields = PatchFields])

TransferRequest ==
    \E d \in Descs :
        /\ nextTxn + 1 <= MaxTxns
        /\ Request([NoReq EXCEPT !.op = "transfer", !.user = 1,
                      !.account = 1, !.category = 2, !.amount = 1,
                      !.description = d, !.to_account = 2,
                      !.fields = PatchFields])

UpdateRequest ==
    \E id \in DOMAIN txns, fs \in SUBSET {"amount", "description"} :
        Request([NoReq EXCEPT !.op = "update", !.user = 1, !.id = id,
                   !.amount = IF "amount" \in fs THEN 2 ELSE 0,
                   !.description = IF "description" \in fs THEN 250 ELSE 0,
                   !.fields = fs])

DestroyRequest ==
    \E id \in DOMAIN txns :
        Request([NoReq EXCEPT !.op = "destroy", !.user = 1, !.id = id])

NextFail ==
    \/ CreateRequest
    \/ TransferRequest
    \/ UpdateRequest
    \/ DestroyRequest
    \/ DoView(1)
    \/ DoCreate(1)
    \/ DoPreSave(1)
    \/ DoSaveRow(1)
    \/ DoLockAdd(1)
    \/ DoCommit(1)
    \/ DoMirror(1)
    \/ DoPreDelete(1)
    \/ DoDeleteRows(1)
    \/ DoRespond(1)
    \/ Crash(1)

SpecFail == Init /\ [][NextFail]_vars

\* First use of the default income category.  A user is registered: post_save
\* of User creates its 'Transfer In' and 'Transfer Out' categories.  User 1
\* may have deleted its 'Transfer In' category through the category API
\* before the requests arrive; then every worker serves one transfer of
\* user 1 from account 1 to account 2.
NewUsers == {3}

RegisterUser(u) ==
    /\ \A c \in DOMAIN categories : categories[c].user # u
    /\ \E r \in {InsertCategory(DB, u, "Transfer In", "income")} :
          \E q \in {InsertCategory(r.db, u, "Transfer Out", "expense")} :
              categories' = q.db.categories
    /\ UNCHANGED <<accounts, txns, nextTxn, procs, last, crashes>>

DropTransferIn ==
    \E c \in TransferInCats(DB, 1) :
        /\ \A p \in Procs : procs[p].status = "idle"
        /\ DestroyCategory(1, c)

FirstTransfer(p) ==
    /\ procs[p].status = "idle"
    /\ Arrive(p, [NoReq EXCEPT !.op = "transfer", !.user = 1, !.account = 1,
                    !.category = 2, !.amount = 1, !.to_account = 2,
                    !.fields = PatchFields])

NextFirst ==
    \/ \E u \in NewUsers : RegisterUser(u)
    \/ DropTransferIn
    \/ \E p \in Procs :
          \/ FirstTransfer(p)
          \/ DoView(p)
          \/ DoGetOrCreate(p)
          \/ DoCreate(p)
          \/ DoLockAdd(p)
          \/ DoCommit(p)
          \/ DoRespond(p)

SpecFirst == Init /\ [][NextFirst]_vars

\* --------------------------------------------------------- the account API
\* The pk of a new account.  The model reuses the pk of a deleted account
\* when it was the largest; no row refers to a deleted account (its
\* transactions are deleted with it), so the reuse cannot be observed.
FreshAccount(db) ==
    1 + (IF DOMAIN db.accounts = {} THEN 0
         ELSE CHOOSE x \in DOMAIN db.accounts :
                 \A y \in DOMAIN db.accounts : y <= x)

\* The requests of the account API carry a name of four characters, as the
\* names of the accounts that exist, and a balance of 7.00.
AcctNames == {4}
SuppliedBalances == {700}

\* The account row whose balance is the one the request supplied.
NewAccount_Supplied(u, n, b) == [user |-> u, name |-> n, balance |-> b]

\* AccountSerializer.create: 'balance' is read-only, the value the request
\* supplied is dropped and the column takes its default, 0.00.
NewAccount(u, n, b) == [user |-> u, name |-> n, balance |-> 0]

\* AccountSerializer.update: 'balance' and 'user' are read-only, the name is
\* written.
PatchedAccount(acc, n, b) == [acc EXCEPT !.name = n]

\* The accounts of user u other than a whose name has length n: a name of
\* that length may be the name of one of them.
SameLength(db, u, n, a) ==
    {k \in DOMAIN db.accounts \ {a} :
        db.accounts[k].user = u /\ db.accounts[k].name = n}

\* POST /accounts/ by user u with a name of length n and balance b.  The
\* INSERT is refused when the user has an account of that name
\* (unique_together (user, name); 'user' is read-only, so no validator of the
\* serializer sees it first).
CreateAccount(u, n, b) ==
    /\ FreshAccount(DB) <= MaxAccts
    /\ \E dup \in {FALSE} \cup {SameLength(DB, u, n, 0) # {}} :
          IF dup
          THEN /\ accounts' = accounts
               /\ last' = [NoLast EXCEPT !.op = "create_account",
                                         !.status = "500", !.amount = b]
          ELSE /\ accounts' =
                     [k \in DOMAIN accounts \cup {FreshAccount(DB)} |->
                        IF k \in DOMAIN accounts THEN accounts[k]
                        ELSE NewAccount(u, n, b)]
               /\ last' = [NoLast EXCEPT !.op = "create_account",
                                         !.status = "201", !.amount = b]
    /\ UNCHANGED <<categories, txns, nextTxn, procs, crashes>>

\* PUT or PATCH /accounts/<a>/ by user u with a name of length n and
\* balance b.
UpdateAccount(u, a, n, b) ==
    /\ \E dup \in {FALSE} \cup {SameLength(DB, u, n, a) # {}} :
          IF ~VisibleAccount(DB, u, a)
          THEN /\ accounts' = accounts
               /\ last' = [NoLast EXCEPT !.op = "update_account", !.id = a,
                                         !.status = "404", !.amount = b]
          ELSE IF dup
          THEN /\ accounts' = accounts
               /\ last' = [NoLast EXCEPT !.op = "update_account", !.id = a,
                                         !.status = "500", !.amount = b]
          ELSE /\ accounts' = [accounts EXCEPT
                                 ![a] = PatchedAccount(accounts[a], n, b)]
               /\ last' = [NoLast EXCEPT !.op = "update_account", !.id = a,
                                         !.status = "200", !.amount = b]
    /\ UNCHANGED <<categories, txns, nextTxn, procs, crashes>>

\* DELETE /accounts/<a>/ by user u.
DestroyAccount(u, a) ==
    Serve([NoReq EXCEPT !.op = "destroy_account", !.user = u, !.account = a])

AccountCreations ==
    \E n \in AcctNames, b \in SuppliedBalances : CreateAccount(1, n, b)

AccountUpdates ==
    \E a \in DOMAIN accounts, n \in AcctNames, b \in SuppliedBalances :
        UpdateAccount(1, a, n, b)

AccountDeletions == \E a \in DOMAIN accounts : DestroyAccount(1, a)

AccountDeposits ==
    \E a \in DOMAIN accounts :
        /\ accounts[a].user = 1
        /\ CreateTransaction(1, a, 1, 1, 0)

AccountTransfers ==
    \E to \in DOMAIN accounts : CreateTransfer(1, 1, 2, 1, 0, to)

AmountUpdates ==
    \E id \in DOMAIN txns : UpdateTransaction(1, id, {"amount"}, 0, 0, 2, 0)

LedgerDeletions == \E id \in DOMAIN txns : DestroyTransaction(1, id)

\* Requests of user 1 served one after the other: the account API, deposits
\* on its accounts, transfers out of account 1, changes of an amount and
\* deletions of a transaction.
NextAcct ==
    \/ AccountCreations
    \/ AccountUpdates
    \/ AccountDeletions
    \/ AccountDeposits
    \/ AccountTransfers
    \/ AmountUpdates
    \/ LedgerDeletions

SpecAcct == Init /\ [][NextAcct]_vars

\* ------------------------------------------------------- the test fixture
\* BaseModelTestCase.setUp, on an empty database and through the model API:
\* users are created (post_save of User runs), accounts are created with the
\* balance the fixture gives them, and the categories 'Salary' (income) and
\* 'Food' (expense) are created.  The steps are taken in any order that has
\* the user before what belongs to it.
SetUpNames == {"Salary", "Food"}
SetUpAccounts == {[name |-> 11, balance |-> 10000],
                  [name |-> 12, balance |-> 50000]}

InitSetUp ==
    /\ accounts = [a \in {} |-> [user |-> 0, name |-> 0, balance |-> 0]]
    /\ categories = [c \in {} |-> [user |-> 0, name |-> "", type |-> ""]]
    /\ txns = [k \in {} |-> NoRow]
    /\ nextTxn = 1
    /\ procs = [p \in Procs |-> IdleProc]
    /\ last = NoLast
    /\ crashes = 0

\* The user exists: in the fixture nothing deletes a category, and the user
\* got its default categories when it was created.
Registered(u) == \E c \in DOMAIN categories : categories[c].user = u

\* User.objects.create_user(...).
SetUpUser(u) ==
    /\ ~Registered(u)
    /\ RegisterUser(u)

\* Account.objects.create(user=u, name=..., balance=...): the fixture's two
\* names have different lengths, so an account of that length is that account.
SetUpAccount(u, acc) ==
    /\ Registered(u)
    /\ FreshAccount(DB) <= MaxAccts
    /\ SameLength(DB, u, acc.name, 0) = {}
    /\ accounts' = [k \in DOMAIN accounts \cup {FreshAccount(DB)} |->
                      IF k \in DOMAIN accounts THEN accounts[k]
                      ELSE [user |-> u, name |-> acc.name,
                            balance |-> acc.balance]]
    /\ UNCHANGED <<categories, txns, nextTxn, procs, last, crashes>>

\* Category.objects.create(user=u, name=n, type=...).
SetUpCategory(u, n) ==
    /\ Registered(u)
    /\ FreshCategory(DB) <= MaxCats
    /\ \E r \in {InsertCategory(DB, u, n,
                    IF n = "Salary" THEN "income" ELSE "expense")} :
          /\ r.ok
          /\ categories' = r.db.categories
    /\ UNCHANGED <<accounts, txns, nextTxn, procs, last, crashes>>

NextSetUp ==
    \/ \E u \in Users : SetUpUser(u)
    \/ \E u \in Users, acc \in SetUpAccounts : SetUpAccount(u, acc)
    \/ \E u \in Users, n \in SetUpNames : SetUpCategory(u, n)

SpecSetUp == InitSetUp /\ [][NextSetUp]_vars

\* The accounts of the worked example: account 1 is Cash with 1000.00 and
\* account 2 is Bank with 500.00 (in hundredths), no transaction yet.  One
\* worker serves deposits of 200.00, transfers of 300.00 between the two
\* accounts and deletions, one request after the other.
ScenarioAccounts ==
    [a \in {1, 2, 3} |->
        [user |-> IF a = 3 THEN 2 ELSE 1, name |-> 4,
         balance |-> IF a = 1 THEN 100000 ELSE IF a = 2 THEN 50000 ELSE 0]]

InitScenario ==
    /\ accounts = ScenarioAccounts
    /\ categories = InitCategories
    /\ txns = [k \in {} |-> NoRow]
    /\ nextTxn = 1
    /\ procs = [p \in Procs |-> IdleProc]
    /\ last = NoLast
    /\ crashes = 0

ScenarioDeposit ==
    \E a \in {1, 2} :
        /\ nextTxn <= MaxTxns + 1
        /\ Request([NoReq EXCEPT !.op = "create", !.user = 1,
                      !.account = a, !.category = 1, !.amount = 20000,
                      !.fields = PatchFields])

ScenarioTransfer ==
    \E a \in {1, 2}, to \in {1, 2} :
        /\ a # to
        /\ nextTxn <= MaxTxns
        /\ Request([NoReq EXCEPT !.op = "transfer", !.user = 1,
                      !.account = a, !.category = 2, !.amount = 30000,
                      !.to_account = to, !.fields = PatchFields])

ScenarioDelete ==
    \E id \in DOMAIN txns :
        Request([NoReq EXCEPT !.op = "destroy", !.user = 1, !.id = id])

NextScenario ==
    \/ ScenarioDeposit
    \/ ScenarioTransfer
    \/ ScenarioDelete
    \/ DoView(1)
    \/ DoCreate(1)
    \/ DoLockAdd(1)
    \/ DoCommit(1)
    \/ DoPreDelete(1)
    \/ DoDeleteRows(1)
    \/ DoRespond(1)

SpecScenario == InitScenario /\ [][NextScenario]_vars

\* ------------------------------------------------------------ the ledger
\* The sum of the signed effects of the stored rows that reference account a.
\* The signed effect as the ledger is specified: +amount for a row of an
\* income category, -amount otherwise.
SignedEffect(db, tx) ==
    IF db.categories[tx.category].type = "income" THEN tx.amount
    ELSE 0 - tx.amount

RECURSIVE SumEffects(_, _, _)
SumEffects(db, a, ks) ==
    IF ks = {} THEN 0
    ELSE LET k == CHOOSE x \in ks : TRUE
         IN (IF db.txns[k].account = a THEN SignedEffect(db, db.txns[k])
             ELSE 0)
              + SumEffects(db, a, ks \ {k})

Ledger(db, a) == SumEffects(db, a, DOMAIN db.txns)


\* The two legs of a well-formed transfer: two rows, one expense, one income,
\* equal amounts.
WellFormed(db, uuid) ==
    LET legs == {k \in DOMAIN db.txns : db.txns[k].transfer_uuid = uuid}
    IN  /\ Cardinality(legs) = 2
        /\ Cardinality(OfType(db, legs, "expense")) = 1
        /\ Cardinality(OfType(db, legs, "income")) = 1
        /\ \A j, k \in legs : db.txns[j].amount = db.txns[k].amount

OutgoingOf(db, uuid) ==
    CHOOSE k \in DOMAIN db.txns :
        /\ db.txns[k].transfer_uuid = uuid
        /\ db.categories[db.txns[k].category].type = "expense"

IncomingOf(db, uuid) ==
    CHOOSE k \in DOMAIN db.txns :
        /\ db.txns[k].transfer_uuid = uuid
        /\ db.categories[db.txns[k].category].type = "income"

\* The part of a set of rows' effects that falls on account a.
EffectOn(db, a, ks) == SumEffects(db, a, ks)

\* ------------------------------------------------------------ the claims

\* C1 (balance invariant): after any sequence of requests served one after
\* the other, every account's balance is the sum of the signed effects of the
\* stored rows that reference it.
BalanceInvariant ==
    \A a \in DOMAIN accounts : accounts[a].balance = Ledger(DB, a)

\* C1 witness: an update has just moved or changed a row, an earlier row is
\* still stored, and some balance is not zero.
BalanceWitness ==
    /\ last.op = "update" /\ last.status = "200"
    /\ Cardinality(DOMAIN txns) = 2
    /\ \E a \in DOMAIN accounts : accounts[a].balance # 0

\* C2 (transfer pairing invariant): every transfer_uuid that is stored is
\* shared by exactly two rows, one of an income category and one of an
\* expense category, of equal amount.
TransferPairing ==
    \A k \in DOMAIN txns :
        txns[k].transfer_uuid # 0 => WellFormed(DB, txns[k].transfer_uuid)

\* C4 (paired deletion, single reversal): the owner's delete of either leg of
\* a well-formed transfer removes both rows and takes each leg's effect back
\* from its account, once.
PairedDeletion ==
    [][\A id \in DOMAIN txns :
         (/\ last'.op = "destroy"
          /\ txns[id].transfer_uuid # 0
          /\ WellFormed(DB, txns[id].transfer_uuid)
          /\ DestroyTransaction(txns[id].user, id))
         => LET legs == {k \in DOMAIN txns :
                           txns[k].transfer_uuid = txns[id].transfer_uuid}
            IN  /\ last'.status = "204"
                /\ DOMAIN txns' = DOMAIN txns \ legs
                /\ \A k \in DOMAIN txns' : txns'[k] = txns[k]
                /\ \A a \in DOMAIN accounts :
                     accounts'[a].balance =
                        accounts[a].balance - EffectOn(DB, a, legs)]_vars

\* C4 witness: a delete addressed to the incoming leg of a transfer between
\* two different accounts has been served; both balances are back at zero.
PairedDeletionWitness ==
    /\ last.op = "destroy" /\ last.status = "204" /\ last.leg = "income"
    /\ DOMAIN txns = {}
    /\ \A a \in DOMAIN accounts : accounts[a].balance = 0

\* C5 (mirrored update result): an update of a transfer of amount A (both
\* legs) that carries an amount and succeeds leaves both legs with that amount, has taken the difference from
\* the outgoing leg's account and has added it to the incoming leg's account,
\* whichever leg was addressed, and changes no other balance.
MirroredUpdate ==
    [][\A id \in DOMAIN txns :
         (/\ last'.op = "update" /\ last'.id = id /\ last'.status = "200"
          /\ last'.amount # 0
          /\ txns[id].transfer_uuid # 0
          /\ WellFormed(DB, txns[id].transfer_uuid))
         => LET uuid == txns[id].transfer_uuid
                out == OutgoingOf(DB, uuid)
                inc == IncomingOf(DB, uuid)
                A == txns[out].amount
                A2 == last'.amount
            IN  /\ DOMAIN txns' = DOMAIN txns
                /\ txns'[out].amount = A2
                /\ txns'[inc].amount = A2
                /\ \A a \in DOMAIN accounts :
                     accounts'[a].balance =
                        accounts[a].balance
                          - (IF a = txns[out].account THEN A2 - A ELSE 0)
                          + (IF a = txns[inc].account THEN A2 - A ELSE 0)]_vars

\* C5 witness: an update addressed to the incoming leg has changed the amount
\* of a transfer.
MirroredUpdateWitness ==
    /\ last.op = "update" /\ last.status = "200" /\ last.leg = "income"
    /\ last.amount # 0 /\ last.was # last.amount
    /\ \A k \in DOMAIN txns : txns[k].amount = last.amount
    /\ \E a \in DOMAIN accounts : accounts[a].balance = last.amount

\* C10 (ownership violation aborts before persistence): a create, a transfer
\* create or an update that names an account, a destination account or a
\* category of another user fails and leaves every row and balance alone.
OwnershipAborts ==
    [][(last'.foreign /\ last'.op \in {"create", "transfer", "update"})
         => /\ last'.status \in {"400", "404", "500"}
            /\ UNCHANGED <<accounts, categories, txns, nextTxn>>]_vars

\* C10 witness: an update that names an account or a category of another
\* user has been refused while rows were stored.
OwnershipWitness ==
    /\ last.foreign /\ last.op = "update" /\ last.status = "400"
    /\ \E a \in DOMAIN accounts : accounts[a].balance # 0


\* What the requests of the workers ps add to account a when every one of
\* them is applied in full: a creation adds the effect of its row, a transfer
\* also adds its amount to the destination.
RECURSIVE Requested(_, _)
Requested(a, ps) ==
    IF ps = {} THEN 0
    ELSE LET p == CHOOSE x \in ps : TRUE
             req == procs[p].req
             row == [NoRow EXCEPT !.category = req.category,
                                  !.amount = req.amount]
         IN (IF req.account = a THEN SignedEffect(DB, row) ELSE 0)
            + (IF req.op = "transfer" /\ req.to_account = a
                  THEN req.amount ELSE 0)
            + Requested(a, ps \ {p})

AllDone == \A p \in Procs : procs[p].status = "201"

\* C8 (concurrent serialization): when the concurrent deposits have all been
\* answered, every account has grown by the sum of the deposits into it, so
\* N deposits of d into one account have added N*d.
NoLostDeposit ==
    AllDone =>
        \A a \in DOMAIN accounts : accounts[a].balance = Requested(a, Procs)

\* C8 witness: every worker has deposited 2 into account 1.
NoLostDepositWitness ==
    /\ AllDone
    /\ \A p \in Procs : procs[p].req.account = 1 /\ procs[p].req.amount = 2
    /\ accounts[1].balance = 2 * NProcs

\* C9 (opposite transfers do not deadlock): while transfers between the same
\* two accounts run concurrently in both directions, some request that is not
\* finished can always take a step, and when all are answered both balances
\* are the initial value plus the algebraic sum of the transfers.
OppositeTransfers ==
    /\ (\E p \in Procs : Running(p))
          => \E p \in Procs : Running(p) /\ ~Blocked(p)
    /\ \A p \in Procs : procs[p].status \in {"idle", "running", "201"}
    /\ AllDone =>
          \A a \in DOMAIN accounts : accounts[a].balance = Requested(a, Procs)

\* C9 witness: a transfer of 2 from account 1 to account 2 and a transfer of
\* 1 from account 2 to account 1 have both been answered.
OppositeTransfersWitness ==
    /\ AllDone
    /\ procs[1].req.account = 1 /\ procs[1].req.amount = 2
    /\ \A p \in Procs \ {1} :
          procs[p].req.account = 2 /\ procs[p].req.amount = 1
    /\ accounts[1].balance = (NProcs - 1) - 2

\* C11 (invalid transfer category): a transfer creation whose outgoing
\* category is not of type expense is refused (400) and leaves the rows, the
\* categories and the balances as they were; also when the user has no
\* 'Transfer In' category yet.
InvalidTransferCategory ==
    [][\A c \in DOMAIN categories :
         (/\ last'.op = "transfer"
          /\ categories[c].type # "expense"
          /\ CreateTransfer(1, 1, c, 1, 0, 2))
         => /\ last'.status = "400"
            /\ UNCHANGED <<accounts, categories, txns, nextTxn>>]_vars

\* C11 witness: user 1, who has no 'Transfer In' category at that moment,
\* has been refused a transfer that named one of its own categories.
InvalidTransferCategoryWitness ==
    /\ last.op = "transfer" /\ last.status = "400" /\ ~last.foreign
    /\ TransferInCats(DB, 1) = {}
    /\ \E c \in DOMAIN categories :
          categories[c].user = 1 /\ categories[c].type = "income"

\* C12 (immutable transfer account): an update addressed to a leg of a
\* transfer by its owner whose patch carries the account field, with or
\* without other fields, is refused (400) and changes no row and no balance.
ImmutableTransferAccount ==
    [][\A id \in DOMAIN txns :
         (/\ last'.op = "update"
          /\ txns[id].transfer_uuid # 0
          /\ \E fs \in SUBSET {"account", "description"} :
                /\ "account" \in fs
                /\ \E a \in DOMAIN accounts,
                      d \in IF "description" \in fs THEN EdgeDescs ELSE {0} :
                     UpdateTransaction(txns[id].user, id, fs, a, 0, 0, d))
         => /\ last'.status = "400"
            /\ UNCHANGED <<accounts, categories, txns, nextTxn>>]_vars

\* C12 witness: an update that names nothing foreign has been refused while
\* a transfer is stored (in these runs, with descriptions of 5 characters,
\* only the account of a transfer leg is refused in such a patch).
ImmutableTransferAccountWitness ==
    /\ last.op = "update" /\ last.status = "400" /\ ~last.foreign
    /\ \E k \in DOMAIN txns : txns[k].transfer_uuid # 0

\* The rows of the worked example: the deposit with txn_id n, and the two
\* legs of the transfer with txn_id m and m + 1.
DepositRow(n) ==
    [pk |-> n, user |-> 1, account |-> 1, category |-> 1, amount |-> 20000,
     description |-> 0, transfer_uuid |-> 0]

CashLeg(m) ==
    [pk |-> m, user |-> 1, account |-> 1, category |-> 2, amount |-> 30000,
     description |-> 0, transfer_uuid |-> m]

BankLeg(m) ==
    [pk |-> m + 1, user |-> 1, account |-> 2, category |-> 1,
     amount |-> 30000, description |-> TransferPrefixLen + 4,
     transfer_uuid |-> m]

DepositOnly(n) == [k \in {n} |-> DepositRow(n)]

DepositAndLegs(n, m) ==
    [k \in {n, m, m + 1} |->
        IF k = n THEN DepositRow(n)
        ELSE IF k = m THEN CashLeg(m) ELSE BankLeg(m)]

ScenarioKeys == 1..(MaxTxns + 2)

\* The request of the worker has come to its end, and the rows and the
\* balances of Cash and Bank were these when it arrived.
Ended(op, rows, cash, bank) ==
    /\ procs[1].req.op = op /\ ~Running(1)
    /\ procs[1].pre.txns = rows
    /\ procs[1].pre.accounts[1].balance = cash
    /\ procs[1].pre.accounts[2].balance = bank

Stored(rows, cash, bank) ==
    /\ txns = rows
    /\ accounts[1].balance = cash
    /\ accounts[2].balance = bank
    /\ accounts[3].balance = 0

NonNegativeAmounts ==
    \A k \in DOMAIN txns : txns[k].amount >= 0

\* C17 (a transfer update applies to the targeted leg): after a successful
\* update addressed to a leg of a transfer, with a category or a description,
\* the addressed leg carries the patch, and the partner leg has kept its
\* category and its account and has the amount of the addressed leg.
TargetedLegUpdate ==
    [][\A id \in DOMAIN txns :
         (/\ last'.op = "update" /\ last'.id = id /\ last'.status = "200"
          /\ txns[id].transfer_uuid # 0
          /\ WellFormed(DB, txns[id].transfer_uuid))
         => LET legs == {k \in DOMAIN txns :
                           txns[k].transfer_uuid = txns[id].transfer_uuid}
                partner == CHOOSE k \in legs : k # id
            IN  /\ \A d \in EdgeDescs :
                      UpdateTransaction(1, id, {"description"}, 0, 0, 0, d)
                      => txns'[id].description = d
                /\ \A c \in ReqCategories :
                      UpdateTransaction(1, id, {"category"}, 0, c, 0, 0)
                      => txns'[id].category = c
                /\ txns'[partner].category = txns[partner].category
                /\ txns'[partner].account = txns[partner].account
                /\ txns'[partner].amount = txns'[id].amount]_vars

\* C18 (the default income category is idempotent per owner): in every state
\* of every interleaving of user registrations and transfer creations, also
\* of concurrent first transfers of one user, a user has at most one income
\* category named 'Transfer In', and the incoming leg of every transfer (the
\* leg whose txn_id is not the one the transfer_uuid stands for) references
\* that category of its user.
DefaultIncomeCategory ==
    /\ \A u \in Users \cup NewUsers :
          Cardinality(TransferInCats(DB, u)) <= 1
    /\ \A k \in DOMAIN txns :
          (txns[k].transfer_uuid # 0 /\ txns[k].transfer_uuid # k)
          => txns[k].category \in TransferInCats(DB, txns[k].user)

\* C18 witness: every worker has created a transfer for user 1, whose
\* 'Transfer In' category did not exist when the first of them arrived and
\* has been created on the way, and a user has been registered meanwhile.
DefaultIncomeCategoryWitness ==
    /\ AllDone
    /\ Cardinality(DOMAIN txns) = 2 * NProcs
    /\ TransferInCats(DB, 1) \cap DOMAIN InitCategories = {}
    /\ TransferInCats(DB, 3) # {}

\* C20 (category uniqueness): no two stored categories have the same (user,
\* name, type); the creation of a duplicate fails and leaves the categories
\* as they were; a creation that is no duplicate (same name with the other
\* type, same name and type for another user) adds the category.
CategoryUniqueness ==
    [][/\ \A c, e \in DOMAIN categories' :
            categories'[c] = categories'[e] => c = e
       /\ \A u \in Users, n \in CatNames, t \in CatTypes :
            (last'.op = "create_category" /\ CreateCategory(u, n, t))
            => IF \E c \in DOMAIN categories :
                     categories[c] = [user |-> u, name |-> n, type |-> t]
                  THEN last'.status # "201" /\ categories' = categories
                  ELSE /\ last'.status = "201"
                       /\ \E c \in DOMAIN categories' \ DOMAIN categories :
                             /\ categories'[c] =
                                   [user |-> u, name |-> n, type |-> t]
                             /\ DOMAIN categories' = DOMAIN categories \cup {c}
                       /\ \A c \in DOMAIN categories :
                             categories'[c] = categories[c]]_vars

\* C20 witness: a duplicate has just been refused while user 1 has 'Food'
\* both as an income and as an expense category.
CategoryUniquenessWitness ==
    /\ last.op = "create_category" /\ last.status = "500"
    /\ \E c, e \in DOMAIN categories :
          /\ categories[c].user = 1 /\ categories[e].user = 1
          /\ categories[c].name = "Food" /\ categories[e].name = "Food"
          /\ categories[c].type # categories[e].type

\* The database as it was when the request of worker p arrived.
PreDB(p) ==
    [accounts |-> procs[p].pre.accounts, categories |-> categories,
     txns |-> procs[p].pre.txns, nextTxn |-> nextTxn]

\* C3 (atomic transfer creation): once a transfer creation has ended, with or
\* without a failure, either both legs are stored and both balances have
\* moved by the amount, or no leg is stored and no balance has changed.
AtomicTransferCreation ==
    (procs[1].req.op = "transfer" /\ ~Running(1) /\ procs[1].status # "idle")
    => LET req == procs[1].req
           pre == procs[1].pre
           new == DOMAIN txns \ DOMAIN pre.txns
       IN  \/ /\ Cardinality(new) = 2
              /\ accounts[req.account].balance
                   = pre.accounts[req.account].balance - req.amount
              /\ accounts[req.to_account].balance
                   = pre.accounts[req.to_account].balance + req.amount
           \/ /\ new = {}
              /\ accounts = pre.accounts

\* C6 (mirrored update atomicity): once an update of a well-formed transfer
\* has ended, with or without a failure, the two legs have equal amounts and
\* either both accounts reflect the stored amount or neither balance moved.
MirroredUpdateAtomic ==
    (/\ procs[1].req.op = "update" /\ ~Running(1)
     /\ procs[1].req.id \in DOMAIN procs[1].pre.txns
     /\ procs[1].pre.txns[procs[1].req.id].transfer_uuid # 0
     /\ WellFormed(PreDB(1), procs[1].pre.txns[procs[1].req.id].transfer_uuid))
    => LET pre == procs[1].pre
           uuid == pre.txns[procs[1].req.id].transfer_uuid
           out == OutgoingOf(PreDB(1), uuid)
           inc == IncomingOf(PreDB(1), uuid)
           A == pre.txns[out].amount
       IN  /\ txns[out].amount = txns[inc].amount
           /\ \A a \in DOMAIN accounts :
                 accounts[a].balance =
                    pre.accounts[a].balance
                      - (IF a = pre.txns[out].account
                            THEN txns[out].amount - A ELSE 0)
                      + (IF a = pre.txns[inc].account
                            THEN txns[inc].amount - A ELSE 0)

\* The transfer_uuid resolves to exactly one expense leg and one income leg.
Resolves(db, uuid) ==
    LET legs == {k \in DOMAIN db.txns : db.txns[k].transfer_uuid = uuid}
    IN  /\ Cardinality(legs) = 2
        /\ Cardinality(OfType(db, legs, "expense")) = 1
        /\ Cardinality(OfType(db, legs, "income")) = 1

\* C13 (corrupted transfer state): an update or a delete addressed to a row
\* whose transfer_uuid does not resolve to one expense leg and one income leg
\* ends in an error, and no row and no balance has changed (the request
\* itself has not died; an earlier one may have).
CorruptedTransferRejected ==
    (/\ procs[1].req.op \in {"update", "destroy"}
     /\ ~Running(1) /\ procs[1].status # "crash"
     /\ procs[1].req.id \in DOMAIN procs[1].pre.txns
     /\ procs[1].pre.txns[procs[1].req.id].transfer_uuid # 0
     /\ ~Resolves(PreDB(1), procs[1].pre.txns[procs[1].req.id].transfer_uuid))
    => /\ procs[1].status \in {"400", "500"}
       /\ txns = procs[1].pre.txns
       /\ accounts = procs[1].pre.accounts

\* C14 (validation precedes every write): a request that has ended in a
\* validation failure (400) has left every row and every balance as it was
\* when the request arrived; looked at in the runs in which no request has
\* died.
ValidationBeforeWrites ==
    (crashes = 0 /\ ~Running(1) /\ procs[1].status = "400")
    => /\ txns = procs[1].pre.txns
       /\ accounts = procs[1].pre.accounts

\* C7 (all-or-nothing single mutation): whenever no request is in flight,
\* also after a request that failed between its row write and its balance
\* write, every balance is the sum of the effects of the stored rows.
AllOrNothing ==
    (\A p \in Procs : ~Running(p)) => BalanceInvariant


OnlyExplicitCategories ==
    Cardinality(DOMAIN categories)
       = Cardinality({c \in DOMAIN categories :
                         categories[c].name \in SetUpNames})

\* C22 (concurrent updates of one transaction): when every worker has served
\* an update of row 1 and all have answered 200, the balance of account 1 is
\* its value before plus the effect of the stored row minus the effect the
\* row had before the updates.
ConcurrentUpdates ==
    (\A p \in Procs : procs[p].req.op = "update" /\ procs[p].status = "200")
    => /\ 1 \in DOMAIN txns
       /\ accounts[1].balance
             = RaceBalance + effect(DB, txns[1]) - effect(DB, RaceRow)

\* C30 (update racing with delete): when the workers have served updates and
\* a deletion of row 1, all are finished and the deletion has answered 204,
\* row 1 is not stored and the balance of account 1 is its value before the
\* requests minus the effect the row had; and whenever no request is in
\* flight, the balance of account 1 is the sum of the effects of its rows.
UpdateRacingDelete ==
    (\A p \in Procs : procs[p].status \notin {"idle", "running"})
    => /\ (\E p \in Procs : procs[p].req.op = "destroy"
                              /\ procs[p].status = "204")
          => /\ 1 \notin DOMAIN txns
             /\ accounts[1].balance = RaceBalance - effect(DB, RaceRow)
       /\ (\E p \in Procs : procs[p].req.op = "destroy")
          => accounts[1].balance = Ledger(DB, 1)

\* C23 (category direction change preserves the ledger): right after an
\* update of a category that answered 200, every account's balance is the sum
\* of the signed effects of its rows computed with the categories' current
\* types, and every stored transfer has one income leg and one expense leg.
DirectionChangeKeepsLedger ==
    (last.op = "update_category" /\ last.status = "200")
    => /\ \A a \in DOMAIN accounts : accounts[a].balance = Ledger(DB, a)
       /\ \A k \in DOMAIN txns :
             txns[k].transfer_uuid # 0
             => LET legs == TransferTxns(DB, txns[k].transfer_uuid,
                                         txns[k].user)
                IN  /\ Cardinality(OfType(DB, legs, "income")) = 1
                    /\ Cardinality(OfType(DB, legs, "expense")) = 1

\* C24 (account deletion keeps the remaining ledger consistent): right after
\* the deletion of an account that answered 204, no stored row shares its
\* transfer_uuid with fewer than two rows, and the balance of every account
\* that is left is the sum of the signed effects of the rows that reference
\* it.
AccountDeletionKeepsLedger ==
    (last.op = "destroy_account" /\ last.status = "204")
    => /\ \A k \in DOMAIN txns :
             txns[k].transfer_uuid # 0
             => Cardinality(TransferTxns(DB, txns[k].transfer_uuid,
                                         txns[k].user)) = 2
       /\ \A a \in DOMAIN accounts : accounts[a].balance = Ledger(DB, a)

\* C25 (global lock order): a request that is about to lock an account row
\* holds no lock of an account with a larger id, and no two requests each
\* wait for an account row the other has locked.
GlobalLockOrder ==
    /\ \A p \in Procs :
          (procs[p].todo # <<>> /\ Head(procs[p].todo).op = "lock_add")
          => \A b \in DOMAIN procs[p].pending : b <= Head(procs[p].todo).a
    /\ \A p, q \in Procs :
          ~ /\ p # q
            /\ procs[p].todo # <<>> /\ Head(procs[p].todo).op = "lock_add"
            /\ procs[q].todo # <<>> /\ Head(procs[q].todo).op = "lock_add"
            /\ Head(procs[p].todo).a \in DOMAIN procs[q].pending
            /\ Head(procs[q].todo).a \in DOMAIN procs[p].pending

\* C26 (update on the same account): a step that serves an update of a row
\* that is no transfer leg and keeps its account changes the balance of that
\* account by the effect of the row as stored after minus its effect as
\* stored before, and no other balance.
SameAccountUpdate ==
    [][ (/\ last'.op = "update" /\ last'.status = "200"
         /\ txns[last'.id].transfer_uuid = 0
         /\ txns'[last'.id].account = txns[last'.id].account)
        => \A a \in DOMAIN accounts :
              accounts'[a].balance
                = accounts[a].balance
                  + (IF a = txns[last'.id].account
                        THEN SignedEffect(DB, txns'[last'.id])
                               - SignedEffect(DB, txns[last'.id])
                        ELSE 0)
      ]_vars

\* C26 witness: an update has answered 200 for a row of an expense category
\* with amount 1, next to another stored row.
SameAccountUpdateWitness ==
    /\ last.op = "update" /\ last.status = "200"
    /\ Cardinality(DOMAIN txns) = 2
    /\ categories[txns[last.id].category].type = "expense"
    /\ txns[last.id].amount = 1
    /\ accounts[txns[last.id].account].balance = -1

\* C27 (update with account change): a step that serves an update moving a
\* row that is no transfer leg from account P to account Q changes P's
\* balance by minus the effect of the row as stored before, Q's balance by
\* the effect of the row as stored after, and no other balance.
AccountChangeUpdate ==
    [][ (/\ last'.op = "update" /\ last'.status = "200"
         /\ txns[last'.id].transfer_uuid = 0
         /\ txns'[last'.id].account # txns[last'.id].account)
        => \A a \in DOMAIN accounts :
              accounts'[a].balance
                = accounts[a].balance
                  + (IF a = txns[last'.id].account
                        THEN 0 - SignedEffect(DB, txns[last'.id])
                     ELSE IF a = txns'[last'.id].account
                        THEN SignedEffect(DB, txns'[last'.id])
                     ELSE 0)
      ]_vars

\* C27 witness: an update has answered 200 and left a row with amount 1 on
\* account 2 while account 1, which has no row, has balance 0.
AccountChangeUpdateWitness ==
    /\ last.op = "update" /\ last.status = "200"
    /\ txns[last.id].account = 2 /\ txns[last.id].amount = 1
    /\ \A k \in DOMAIN txns : txns[k].account = 2
    /\ accounts[1].balance = 0
    /\ accounts[2].balance # 0

\* C28 (create and delete touch one account): a step that serves the creation
\* of a row that is no transfer leg adds the row's effect to the balance of
\* its account, a step that serves the deletion of such a row takes the
\* row's effect back from the balance of its account, and both change no
\* other balance.
CreateDeleteOneAccount ==
    [][ /\ (last'.op = "create" /\ last'.status = "201")
           => /\ DOMAIN txns' = DOMAIN txns \cup {nextTxn}
              /\ \A a \in DOMAIN accounts :
                    accounts'[a].balance
                      = accounts[a].balance
                        + (IF a = txns'[nextTxn].account
                              THEN SignedEffect(DB, txns'[nextTxn])
                              ELSE 0)
        /\ (/\ last'.op = "destroy" /\ last'.status = "204"
            /\ txns[last'.id].transfer_uuid = 0)
           => /\ DOMAIN txns' = DOMAIN txns \ {last'.id}
              /\ \A a \in DOMAIN accounts :
                    accounts'[a].balance
                      = accounts[a].balance
                        - (IF a = txns[last'.id].account
                              THEN SignedEffect(DB, txns[last'.id])
                              ELSE 0)
      ]_vars

\* C28 witness: a deletion has answered 204, a row with amount 1 is still
\* stored and a balance is not 0.
CreateDeleteOneAccountWitness ==
    /\ last.op = "destroy" /\ last.status = "204"
    /\ \E k \in DOMAIN txns : txns[k].amount = 1
    /\ \E a \in DOMAIN accounts : accounts[a].balance # 0

\* C29 (effect calculator): the effect computed for a row is its amount when
\* the type of its category is income and minus its amount for any other
\* type, and it is the same for every row of that amount and category,
\* whatever its account, user, description and transfer_uuid.
EffectCalculator ==
    /\ last.op = "effect"
       => last.amount
            = (IF categories[txns[last.id].category].type = "income"
                  THEN txns[last.id].amount
                  ELSE 0 - txns[last.id].amount)
    /\ \A k \in DOMAIN txns, a \in DOMAIN accounts, u \in Users,
          d \in Descs, t \in {0, 1} :
          effect(DB, [txns[k] EXCEPT !.account = a, !.user = u,
                                     !.description = d,
                                     !.transfer_uuid = t])
            = effect(DB, txns[k])

\* C29 witness: the effect -2 has been computed for a row of amount 2 whose
\* category has a type that is neither income nor expense.
EffectCalculatorWitness ==
    /\ last.op = "effect"
    /\ categories[txns[last.id].category].type = "other"
    /\ txns[last.id].amount = 2
    /\ last.amount = -2

=========================================================================
